---------------------------- MODULE Spec2Model ----------------------------
(***************************************************************************)
(* A model of the Maestro agent service: the FastAPI layer (main.py), the  *)
(* echo agent (maestro/agent.py) and the Chroma-backed memory service      *)
(* (maestro/memory/chroma_memory_service.py).                              *)
(*                                                                         *)
(* Representation.  A Python str is the sequence of its code points, so    *)
(* that ord(c), slicing and ' '.join are computed as the code computes     *)
(* them.  None is the empty sequence <<>> and a present value v is <<v>>   *)
(* (an optional is a sequence of length at most one).  The floats of the   *)
(* program are multiples of 1/255 and are held in fixed point, a float x   *)
(* as the integer x * ONE, so that 0.0 is 0 and 1.0 is ONE.  Session ids,  *)
(* authors and record ids are TLA+ strings.                                *)
(***************************************************************************)
EXTENDS Integers, Sequences, FiniteSets, TLC

VARIABLES
  sessions,  \* InMemorySessionService: session id -> Session
  store,     \* the Chroma collection 'session_events', in insertion order
  op,        \* the operation that ran last
  arg,       \* its input
  result     \* what it returned (or the HTTP answer it gave)

vars == <<sessions, store, op, arg, result>>

---------------------------------------------------------------------------
(* Bounds of the model. *)

MaxTextLen == 34      \* longest text handed to _embed_text
MaxAgentEvents == 3   \* longest history handed to the agent alone
MaxMemEvents == 3     \* events over all sessions, memory service alone
MaxSearchEvents == 6  \* events of the session, search alone
MaxMessages == 2      \* accepted message submissions over all sessions

---------------------------------------------------------------------------
(* Python helpers. *)

None == <<>>
Some(v) == <<v>>
IsNone(o) == o = <<>>
Get(o) == o[1]

Min(a, b) == IF a < b THEN a ELSE b

\* text[:n]
Slice(text, n) == SubSeq(text, 1, Min(n, Len(text)))

\* sep.join(strs)
RECURSIVE Join(_, _)
Join(sep, strs) ==
  IF strs = <<>> THEN <<>>
  ELSE IF Len(strs) = 1 THEN strs[1]
  ELSE strs[1] \o sep \o Join(sep, Tail(strs))

\* bool(s) of an optional str: neither None nor ''
Truthy(o) == ~IsNone(o) /\ Get(o) # <<>>

SPACE == <<32>>                           \* ' '
ECHO == <<69, 99, 104, 111, 58, 32>>      \* 'Echo: '
TextA == <<97>>                           \* 'a'
TextB == <<98>>                           \* 'b'
TextHi == <<104, 105>>                    \* 'hi'

---------------------------------------------------------------------------
(* maestro/memory/chroma_memory_service.py: the embedder. *)

_EMBED_DIM == 32

\* 1.0 in the fixed-point unit in which the program's floats are held
ONE == 255

\* float(n) / 255
Float255(n) == (n * ONE) \div 255

Zeros(n) == [i \in 1..n |-> Float255(0)]

\* the mutant of _embed_text: the slice to _EMBED_DIM is lost
EmbedTextNoSlice(text) ==
  LET vec == [i \in 1..Len(text) |-> Float255(text[i] % 256)]
  IN IF Len(vec) < _EMBED_DIM THEN vec \o Zeros(_EMBED_DIM - Len(vec)) ELSE vec

_embed_text(text) ==
  LET head == Slice(text, _EMBED_DIM)
      vec == [i \in 1..Len(head) |-> Float255(head[i] % 256)]
  IN IF Len(vec) < _EMBED_DIM THEN vec \o Zeros(_EMBED_DIM - Len(vec)) ELSE vec

---------------------------------------------------------------------------
(* The embedder alone: a text is drawn, then embedded. *)

EmbedChars == {97, 255, 256, 8364}

\* every text of one repeated character with one position overwritten
EmbedInputs ==
  { [i \in 1..n |-> IF i = p THEN c2 ELSE c1] :
      n \in 0..MaxTextLen, p \in 1..MaxTextLen, c1 \in EmbedChars, c2 \in EmbedChars }

InitEmbed ==
  /\ sessions = <<>>
  /\ store = <<>>
  /\ op = "input"
  /\ arg \in EmbedInputs
  /\ result = <<>>

EmbedText ==
  /\ op = "input"
  /\ op' = "_embed_text"
  /\ result' = _embed_text(arg)
  /\ UNCHANGED <<sessions, store, arg>>

NextEmbed == EmbedText

SpecEmbed == InitEmbed /\ [][NextEmbed]_vars

\* C9: _embed_text(s) has length exactly 32; component i is
\* (code point of s[i] mod 256)/255, which lies in [0,1], for every
\* i < min(len(s), 32), and 0 for every i >= len(s); characters past
\* position 32 do not affect the result; the empty string yields 32 zeros.
C9_EmbedShape ==
  op = "_embed_text" =>
    /\ Len(result) = 32
    /\ \A i \in 1..32 :
         /\ 0 <= result[i] /\ result[i] <= ONE
         /\ i <= Len(arg) => result[i] * 255 = (arg[i] % 256) * ONE
         /\ i > Len(arg) => result[i] = 0
    /\ _embed_text(Slice(arg, 32)) = result
    /\ arg = <<>> => \A i \in 1..32 : result[i] = 0

\* a text of more than 32 characters, one of them above code point 255
C9_Witness ==
  /\ op = "_embed_text"
  /\ Len(arg) > 32
  /\ arg[33] # arg[1]
  /\ arg[2] >= 256
  /\ result[2] * 255 = 172 * ONE

---------------------------------------------------------------------------
(* google.genai types and ADK events, as the code reads them. *)

APP_NAME == "maestro"
USER_ID == "user"

Part(text) == [text |-> text]                      \* text: optional str
PartFromText(t) == Part(Some(t))                   \* types.Part.from_text
Content(role, parts) == [role |-> role, parts |-> parts]
Event(author, content, timestamp) ==
  [author |-> author, content |-> content, timestamp |-> timestamp]

Session(id) ==
  [id |-> id, app_name |-> APP_NAME, user_id |-> USER_ID, events |-> <<>>]

\* the instant at which the next event of a session is created
Clock(session) == Len(session.events) + 1

PartText(p) == Get(p.text)
PartHasText(p) == Truthy(p.text)

\* [p.text for p in parts if p.text]
TextParts(parts) ==
  LET kept == SelectSeq(parts, PartHasText)
  IN [i \in 1..Len(kept) |-> PartText(kept[i])]

---------------------------------------------------------------------------
(* maestro/agent.py: MaestroAgent._run_async_impl. *)

\* the loop over ctx.session.events: one message per event that has text
RECURSIVE HistoryMessages(_)
HistoryMessages(events) ==
  IF events = <<>> THEN <<>>
  ELSE LET event == events[1]
           rest == HistoryMessages(Tail(events))
       IN IF IsNone(event.content) \/ Get(event.content).parts = <<>>
          THEN rest
          ELSE LET text == Join(SPACE, TextParts(Get(event.content).parts))
               IN IF text = <<>> THEN rest
                  ELSE <<[role |-> event.author, content |-> text]>> \o rest

UserMessages(user_content) ==
  IF ~IsNone(user_content) /\ Get(user_content).parts # <<>>
  THEN LET user_text == Join(SPACE, TextParts(Get(user_content).parts))
       IN IF user_text # <<>>
          THEN <<[role |-> "user", content |-> user_text]>>
          ELSE <<>>
  ELSE <<>>

\* the mutant of EchoText: the first message is echoed, not the last
EchoTextFirst(messages) ==
  IF messages # <<>> THEN ECHO \o messages[1].content ELSE <<>>

EchoText(messages) ==
  IF messages # <<>> THEN ECHO \o messages[Len(messages)].content ELSE <<>>

\* the events the generator yields, in order
_run_async_impl(ctx) ==
  LET messages == HistoryMessages(ctx.session.events)
                    \o UserMessages(ctx.user_content)
      content_text == EchoText(messages)
  IN << Event(ctx.agent_name,
              Some(Content(None, <<PartFromText(content_text)>>)),
              Clock(ctx.session)) >>

---------------------------------------------------------------------------
(* The agent alone: any event may be in the session's log, and the agent  *)
(* is run on it with any user content.                                     *)

SessionIds == {"s1", "s2"}

EventShapes ==
  { [author |-> "user", content |-> None],
    [author |-> "maestro", content |-> Some(Content(Some("model"), <<>>))],
    [author |-> "user", content |-> Some(Content(Some("user"), <<Part(None)>>))],
    [author |-> "maestro",
     content |-> Some(Content(Some("model"), <<PartFromText(<<>>)>>))],
    [author |-> "user",
     content |-> Some(Content(Some("user"), <<PartFromText(TextA)>>))],
    [author |-> "maestro",
     content |-> Some(Content(Some("model"),
       <<PartFromText(TextA), PartFromText(<<>>), PartFromText(TextB)>>))],
    [author |-> "user",
     content |-> Some(Content(Some("user"), <<Part(None), PartFromText(TextHi)>>))] }

UserContents ==
  { None,
    Some(Content(Some("user"), <<>>)),
    Some(Content(Some("user"), <<Part(None)>>)),
    Some(Content(Some("user"), <<PartFromText(<<>>)>>)),
    Some(Content(Some("user"), <<PartFromText(TextB)>>)),
    Some(Content(Some("user"), <<PartFromText(TextHi), PartFromText(TextA)>>)) }

TotalEvents == 
  LET RECURSIVE Sum(_)
      Sum(S) == IF S = {} THEN 0
                ELSE LET s == CHOOSE x \in S : TRUE
                     IN Len(sessions[s].events) + Sum(S \ {s})
  IN Sum(DOMAIN sessions)

\* session_service.append_event(session, event)
AppendTo(sid, event) ==
  [sessions EXCEPT ![sid].events = Append(@, event)]

AppendEvent(sid, shape, bound) ==
  /\ sid \in DOMAIN sessions
  /\ TotalEvents < bound
  /\ sessions' = AppendTo(sid, Event(shape.author, shape.content,
                                      Clock(sessions[sid])))
  /\ op' = "append_event"
  /\ arg' = [session_id |-> sid]
  /\ result' = <<>>
  /\ UNCHANGED store

RunAgent(sid, user_content) ==
  /\ sid \in DOMAIN sessions
  /\ op' = "_run_async_impl"
  /\ arg' = [session_id |-> sid, user_content |-> user_content]
  /\ result' = _run_async_impl([session |-> sessions[sid],
                                user_content |-> user_content,
                                agent_name |-> APP_NAME])
  /\ UNCHANGED <<sessions, store>>

InitAgent ==
  /\ sessions = [sid \in {"s1"} |-> Session(sid)]
  /\ store = <<>>
  /\ op = "create_session"
  /\ arg = <<>>
  /\ result = [id |-> "s1"]

AgentAppend == \E shape \in EventShapes : AppendEvent("s1", shape, MaxAgentEvents)
AgentRun == \E uc \in UserContents : RunAgent("s1", uc)

NextAgent == AgentAppend \/ AgentRun

SpecAgent == InitAgent /\ [][NextAgent]_vars

\* the text of one entry of the history: its non-empty text fragments, joined
EntryText(content) ==
  IF IsNone(content) THEN <<>> ELSE Join(SPACE, TextParts(Get(content).parts))

\* the combined history: the stored turns in order, then the new user input
Combined(sid, user_content) ==
  [i \in 1..Len(sessions[sid].events) |->
     EntryText(sessions[sid].events[i].content)]
    \o <<EntryText(user_content)>>

\* the text the claim expects for a combined history
Expected(entries) ==
  IF \A i \in 1..Len(entries) : entries[i] = <<>> THEN <<>>
  ELSE LET k == CHOOSE i \in 1..Len(entries) :
                  /\ entries[i] # <<>>
                  /\ \A j \in (i + 1)..Len(entries) : entries[j] = <<>>
       IN ECHO \o entries[k]

---------------------------------------------------------------------------
(* The Chroma collection behind ChromaMemoryService.                       *)

Record(id, document, metadata, embedding) ==
  [id |-> id, document |-> document, metadata |-> metadata,
   embedding |-> embedding]

StoredIds(coll) == {coll[i].id : i \in 1..Len(coll)}

\* the records of an add call at the positions in kept, in call order
RECURSIVE RecordsOf(_, _, _)
RecordsOf(call, kept, i) ==
  IF i > Len(call.ids) THEN <<>>
  ELSE (IF i \in kept
        THEN <<Record(call.ids[i], call.documents[i], call.metadatas[i],
                      call.embeddings[i])>>
        ELSE <<>>) \o RecordsOf(call, kept, i + 1)

\* the mutant of CollectionAdd: a store that appends whatever it is given
CollectionAddNoDedupe(coll, call) ==
  { [coll |-> coll \o RecordsOf(call, 1..Len(call.ids), 1),
     raised |-> FALSE] }

\* collection.add(ids, documents, metadatas, embeddings): the outcomes.  An
\* id the collection already holds is not inserted again: it is skipped, or
\* (depending on the chromadb release) the whole call raises.
CollectionAdd(coll, call) ==
  LET known == {i \in 1..Len(call.ids) : call.ids[i] \in StoredIds(coll)}
      repeated == \E i, j \in 1..Len(call.ids) :
                     i # j /\ call.ids[i] = call.ids[j]
      refused == [coll |-> coll, raised |-> TRUE]
  IN IF call.ids = <<>> \/ repeated THEN {refused}
     ELSE { [coll |-> coll \o RecordsOf(call, (1..Len(call.ids)) \ known, 1),
             raised |-> FALSE] }
          \cup (IF known # {} THEN {refused} ELSE {})

\* squared L2 distance of two embeddings, in units of 1/ONE^2
RECURSIVE DistanceFrom(_, _, _)
DistanceFrom(u, v, i) ==
  IF i > Len(u) THEN 0
  ELSE (u[i] - v[i]) * (u[i] - v[i]) + DistanceFrom(u, v, i + 1)

Distance(u, v) == DistanceFrom(u, v, 1)

\* every nearest-first choice of at most n of the positions in left
RECURSIVE Nearest(_, _, _)
Nearest(dist, left, n) ==
  IF n = 0 \/ left = {} THEN {<<>>}
  ELSE LET closest == {i \in left : \A j \in left : dist[i] <= dist[j]}
       IN UNION { {<<i>> \o r : r \in Nearest(dist, left \ {i}, n - 1)} :
                  i \in closest }

\* the distance of every record of the collection to q, in record order
RECURSIVE Distances(_, _)
Distances(coll, q) ==
  IF coll = <<>> THEN <<>>
  ELSE <<Distance(coll[1].embedding, q)>> \o Distances(Tail(coll), q)

\* collection.query(query_embeddings=[q], n_results=n): the rankings the
\* collection may answer with, each the positions of the records returned
\* (records at the same distance may come in any order)
QueryRankings(coll, q, n) ==
  Nearest(Distances(coll, q), 1..Len(coll), n)

\* what collection.query returns for a ranking: one inner list per query
CollectionQuery(coll, q, ranking) ==
  [ids |-> <<[j \in 1..Len(ranking) |-> coll[ranking[j]].id]>>,
   documents |-> <<[j \in 1..Len(ranking) |-> coll[ranking[j]].document]>>,
   metadatas |-> <<[j \in 1..Len(ranking) |-> coll[ranking[j]].metadata]>>,
   distances |-> <<[j \in 1..Len(ranking) |->
                     Distance(coll[ranking[j]].embedding, q)]>>]

---------------------------------------------------------------------------
(* maestro/memory/chroma_memory_service.py: ChromaMemoryService.           *)

\* _utils.format_timestamp(event.timestamp): the instant as an ISO string
format_timestamp(timestamp) == [iso |-> timestamp]

\* f'{session.id}-{idx}'
RecordId(session_id, idx) == session_id \o "-" \o ToString(idx)

\* the mutant of EntryIndex: the index counts the qualifying turns only
EntryIndexAmongKept(idx, kept) == kept

\* the idx that enumerate(session.events) gives the event at hand
EntryIndex(idx, kept) == idx

\* the loop of add_session_to_memory from event idx on (idx counts from 0);
\* acc holds the four lists built so far
RECURSIVE CollectTurns(_, _, _)
CollectTurns(session, idx, acc) ==
  IF idx >= Len(session.events) THEN acc
  ELSE LET event == session.events[idx + 1]
       IN IF IsNone(event.content) \/ Get(event.content).parts = <<>>
          THEN CollectTurns(session, idx + 1, acc)
          ELSE LET text_parts == TextParts(Get(event.content).parts)
               IN IF text_parts = <<>>
                  THEN CollectTurns(session, idx + 1, acc)
                  ELSE LET text == Join(SPACE, text_parts)
                       IN CollectTurns(session, idx + 1,
                            [docs |-> Append(acc.docs, text),
                             metadatas |-> Append(acc.metadatas,
                               [app_name |-> session.app_name,
                                user_id |-> session.user_id,
                                session_id |-> session.id,
                                author |-> event.author,
                                timestamp |->
                                  format_timestamp(event.timestamp)]),
                             ids |-> Append(acc.ids,
                               RecordId(session.id,
                                        EntryIndex(idx, Len(acc.ids)))),
                             embeddings |-> Append(acc.embeddings,
                                                   _embed_text(text))])

AddCall(lists) ==
  [method |-> "add", ids |-> lists.ids, documents |-> lists.docs,
   metadatas |-> lists.metadatas, embeddings |-> lists.embeddings]

\* the mutant of AddCalls: the call is issued whether or not docs is empty
AddCallsUnguarded(lists) == <<AddCall(lists)>>

\* 'if docs: self._collection.add(...)': the calls issued to the collection
AddCalls(lists) == IF lists.docs # <<>> THEN <<AddCall(lists)>> ELSE <<>>

\* the calls add_session_to_memory(session) issues to the collection
add_session_to_memory(session) ==
  AddCalls(CollectTurns(session, 0,
             [docs |-> <<>>, metadatas |-> <<>>, ids |-> <<>>,
              embeddings |-> <<>>]))

N_RESULTS == 5

MemoryEntry(content, author, timestamp) ==
  [content |-> content, author |-> author, timestamp |-> timestamp]

\* the SearchMemoryResponse built from what collection.query returned
SearchResponse(returned) ==
  LET documents == returned.documents
      metadatas == returned.metadatas
  IN IF documents # <<>>
     THEN [memories |->
             [j \in 1..Min(Len(documents[1]), Len(metadatas[1])) |->
                MemoryEntry(Some(Content(Some("user"),
                                         <<PartFromText(documents[1][j])>>)),
                            metadatas[1][j].author,
                            metadatas[1][j].timestamp)]]
     ELSE [memories |-> <<>>]

\* the mutant of QuerySize: twice as many results are asked for
QuerySizeDoubled == 2 * N_RESULTS

QuerySize == N_RESULTS

\* the query call search_memory(query) makes
QueryCall(query) ==
  [method |-> "query", query_embeddings |-> <<_embed_text(query)>>,
   n_results |-> QuerySize]

\* search_memory(app_name, user_id, query) against coll, when the collection
\* answers with ranking: the call made, what it returned and the response
search_memory(coll, query, ranking) ==
  LET call == QueryCall(query)
      returned == CollectionQuery(coll, call.query_embeddings[1], ranking)
  IN [calls |-> <<call>>, returned |-> returned,
      response |-> SearchResponse(returned)]

---------------------------------------------------------------------------
(* The operations on the session registry and the memory service.          *)

\* session_service.create_session(app_name, user_id): a fresh id
CreateSession ==
  /\ \E sid \in SessionIds \ DOMAIN sessions :
       /\ sessions' = [s \in DOMAIN sessions \cup {sid} |->
                         IF s = sid THEN Session(sid) ELSE sessions[s]]
       /\ arg' = <<>>
       /\ result' = [status |-> 200, body |-> [id |-> sid]]
  /\ op' = "create_session"
  /\ UNCHANGED store

\* memory_service.add_session_to_memory(session)
AddSessionToMemory(sid) ==
  /\ sid \in DOMAIN sessions
  /\ LET calls == add_session_to_memory(sessions[sid])
     IN IF calls = <<>>
        THEN /\ store' = store
             /\ result' = [calls |-> calls, raised |-> FALSE]
        ELSE \E out \in CollectionAdd(store, calls[1]) :
               /\ store' = out.coll
               /\ result' = [calls |-> calls, raised |-> out.raised]
  /\ op' = "add_session_to_memory"
  /\ arg' = [session_id |-> sid]
  /\ UNCHANGED sessions

\* memory_service.search_memory(app_name, user_id, query).  A search changes
\* neither the sessions nor the store, so a search that follows a search
\* reaches only the states the first one reaches: it is not explored again.
SearchMemory(query) ==
  /\ op # "search_memory"
  /\ \E ranking \in QueryRankings(store, QueryCall(query).query_embeddings[1],
                                   QueryCall(query).n_results) :
       result' = search_memory(store, query, ranking)
  /\ op' = "search_memory"
  /\ arg' = [query |-> query]
  /\ UNCHANGED <<sessions, store>>

\* the turns of a session that have non-empty text, as positions from 1
Qualifying(session) ==
  {i \in 1..Len(session.events) : EntryText(session.events[i].content) # <<>>}

---------------------------------------------------------------------------
(* The memory service alone: sessions with any events are committed to     *)
(* memory, any number of times.                                            *)

InitMemory ==
  /\ sessions = <<>>
  /\ store = <<>>
  /\ op = "init"
  /\ arg = <<>>
  /\ result = <<>>

MemoryAppend ==
  \E sid \in SessionIds, shape \in EventShapes :
    AppendEvent(sid, shape, MaxMemEvents)

MemoryCommit == \E sid \in SessionIds : AddSessionToMemory(sid)

NextMemory == CreateSession \/ MemoryAppend \/ MemoryCommit

SpecMemory == InitMemory /\ [][NextMemory]_vars

C6_NoTextNoCall ==
  [][ (op' = "add_session_to_memory"
         /\ Qualifying(sessions[arg'.session_id]) = {})
      => (result'.calls = <<>> /\ ~result'.raised /\ store' = store) ]_vars

\* a session of two turns without text committed while the store has records
C6_Witness ==
  /\ op = "add_session_to_memory"
  /\ Len(sessions[arg.session_id].events) >= 2
  /\ sessions[arg.session_id].events[1].content
       # sessions[arg.session_id].events[2].content
  /\ Qualifying(sessions[arg.session_id]) = {}
  /\ result.calls = <<>>
  /\ store # <<>>

\* C10: one add_session_to_memory call submits, in a single batch, exactly
\* one record for each turn with non-empty text and none for any other turn;
\* the record of the turn at position i of the full turn list (skipped turns
\* counted) has id "{session_id}-{i}", the turn's text parts joined by a
\* space as text and the turn's author in its metadata; records are in turn
\* order.
C10_OneBatchInTurnOrder ==
  op = "add_session_to_memory" =>
    LET session == sessions[arg.session_id]
        turns == Qualifying(session)
        rank(i) == Cardinality({k \in turns : k <= i})
    IN /\ Len(result.calls) = (IF turns = {} THEN 0 ELSE 1)
       /\ turns # {} =>
            LET call == result.calls[1]
            IN /\ call.method = "add"
               /\ Len(call.ids) = Cardinality(turns)
               /\ Len(call.documents) = Cardinality(turns)
               /\ Len(call.metadatas) = Cardinality(turns)
               /\ Len(call.embeddings) = Cardinality(turns)
               /\ \A i \in turns :
                    /\ call.ids[rank(i)] = RecordId(session.id, i - 1)
                    /\ call.documents[rank(i)] =
                         EntryText(session.events[i].content)
                    /\ call.metadatas[rank(i)].author =
                         session.events[i].author
                    /\ call.metadatas[rank(i)].session_id = session.id

\* a batch of two records whose turns follow a skipped turn
C10_Witness ==
  /\ op = "add_session_to_memory"
  /\ Len(result.calls) = 1
  /\ Len(result.calls[1].ids) = 2
  /\ Qualifying(sessions[arg.session_id]) = {2, 3}
  /\ result.calls[1].metadatas[1].author # result.calls[1].metadatas[2].author

---------------------------------------------------------------------------
(* Search alone: one session whose turns all have text is committed and    *)
(* the store is searched.                                                  *)

TextAB == <<97, 32, 98>>                  \* 'a b'

SearchShapes ==
  {shape \in EventShapes :
     EntryText(shape.content) \in {TextA, TextAB}}

SearchQueries == {<<>>, TextAB}

InitSearch ==
  /\ sessions = [sid \in {"s1"} |-> Session(sid)]
  /\ store = <<>>
  /\ op = "create_session"
  /\ arg = <<>>
  /\ result = [status |-> 200, body |-> [id |-> "s1"]]

SearchAppend ==
  \E shape \in SearchShapes : AppendEvent("s1", shape, MaxSearchEvents)

SearchCommit == AddSessionToMemory("s1")

SearchQuery == \E query \in SearchQueries : SearchMemory(query)

NextSearch == SearchAppend \/ SearchCommit \/ SearchQuery

SpecSearch == InitSearch /\ [][NextSearch]_vars

\* the position in the store of the record with an id
PositionOf(id) == CHOOSE i \in 1..Len(store) : store[i].id = id

\* C8: search_memory returns the first min(5, n) entries of the store's
\* nearest-first ranking of its n records for the embedded query, in that
\* order; against an empty store it returns an empty list, never an error.
C8_TopFiveNearestFirst ==
  op = "search_memory" =>
    LET n == Len(store)
        dist == Distances(store, _embed_text(arg.query))
        ids == result.returned.ids[1]
        shown == result.returned.distances[1]
        memories == result.response.memories
        m == Len(memories)
    IN /\ m = Min(5, n)
       /\ Len(ids) = m /\ Len(shown) = m
       /\ \A j \in 1..m :
            /\ ids[j] \in StoredIds(store)
            /\ shown[j] = dist[PositionOf(ids[j])]
            /\ LET r == store[PositionOf(ids[j])]
               IN memories[j] =
                    MemoryEntry(Some(Content(Some("user"),
                                             <<PartFromText(r.document)>>)),
                                r.metadata.author, r.metadata.timestamp)
       /\ \A j, k \in 1..m : j < k => ids[j] # ids[k] /\ shown[j] <= shown[k]
       /\ \A i \in 1..n :
            (\A j \in 1..m : ids[j] # store[i].id) => shown[m] <= dist[i]
       /\ n = 0 => memories = <<>>

\* six records of two different texts in the store: five are returned, and
\* a nearer record that was stored later comes before a farther one
C8_Witness ==
  /\ op = "search_memory"
  /\ Len(store) = 6
  /\ Len(result.response.memories) = 5
  /\ store[1].document # store[6].document
  /\ result.returned.ids[1][1] = store[6].id
  /\ result.returned.distances[1][1] < result.returned.distances[1][5]

---------------------------------------------------------------------------
(* google.adk.runners.Runner.run_async, as main.py uses it.                *)

\* run_async(user_id, session_id, new_message) on the registry reg: the
\* session is resolved (an unknown id raises), the user turn is appended,
\* the agent runs over the history and each event it yields is appended to
\* the session and passed on
RunAsync(reg, session_id, new_message) ==
  IF session_id \notin DOMAIN reg
  THEN [raised |-> TRUE, sessions |-> reg, events |-> <<>>]
  ELSE LET asked == [reg EXCEPT ![session_id].events =
                       Append(@, Event("user", Some(new_message),
                                       Clock(reg[session_id])))]
           yielded == _run_async_impl([session |-> asked[session_id],
                                       user_content |-> Some(new_message),
                                       agent_name |-> APP_NAME])
       IN [raised |-> FALSE,
           sessions |-> [asked EXCEPT ![session_id].events = @ \o yielded],
           events |-> yielded]

---------------------------------------------------------------------------
(* main.py: the HTTP operations.                                           *)

EventFirstText(event) == Get(Get(event.content).parts[1].text)

HasContentParts(event) ==
  ~IsNone(event.content) /\ Get(event.content).parts # <<>>

EventHasFirstText(event) ==
  HasContentParts(event) /\ Truthy(Get(event.content).parts[1].text)

\* the mutant of Responses: 'if text:' is lost, an empty text is a response
ResponsesUnfiltered(events) ==
  LET kept == SelectSeq(events, HasContentParts)
  IN [i \in 1..Len(kept) |-> EventFirstText(kept[i])]

\* the loop of send_message over the events the runner passes on
Responses(events) ==
  LET kept == SelectSeq(events, EventHasFirstText)
  IN [i \in 1..Len(kept) |-> EventFirstText(kept[i])]

HttpError(status, detail) == [status |-> status, body |-> [detail |-> detail]]

\* POST /sessions/{session_id}/message
send_message(session_id, message) ==
  LET content == Content(Some("user"), <<PartFromText(message)>>)
      run == RunAsync(sessions, session_id, content)
      responses == Responses(run.events)
  IN /\ sessions' = run.sessions
     /\ result' =
          IF run.raised THEN HttpError(500, "Internal Server Error")
          ELSE IF responses = <<>>
               THEN HttpError(500, "No response from agent")
               ELSE [status |-> 200,
                     body |-> [response |-> responses[Len(responses)]]]
     /\ op' = "send_message"
     /\ arg' = [session_id |-> session_id, message |-> message]
     /\ UNCHANGED store

MemoryText(memory) ==
  IF ~IsNone(memory.content) /\ Get(memory.content).parts # <<>>
       /\ Truthy(Get(memory.content).parts[1].text)
  THEN Get(Get(memory.content).parts[1].text)
  ELSE <<>>

\* the mutant of Memories: the append is outside the loop, the last one stays
MemoriesLastOnly(response) ==
  LET found == response.memories
  IN IF found = <<>> THEN <<>>
     ELSE <<[author |-> found[Len(found)].author,
             text |-> MemoryText(found[Len(found)]),
             timestamp |-> found[Len(found)].timestamp]>>

\* the loop of get_memory over result.memories
Memories(response) ==
  [j \in 1..Len(response.memories) |->
     [author |-> response.memories[j].author,
      text |-> MemoryText(response.memories[j]),
      timestamp |-> response.memories[j].timestamp]]

\* GET /sessions/{session_id}/memory?q=query.  A search changes nothing, so
\* a search that follows a search is not explored again.
get_memory(session_id, query) ==
  /\ op # "get_memory"
  /\ IF session_id \notin DOMAIN sessions
     THEN result' = [status |-> 404, body |-> [detail |-> "Session not found"],
                     calls |-> <<>>]
     ELSE \E ranking \in QueryRankings(store,
                           QueryCall(query).query_embeddings[1],
                           QueryCall(query).n_results) :
            LET found == search_memory(store, query, ranking)
            IN result' = [status |-> 200,
                          body |-> [memories |-> Memories(found.response)],
                          calls |-> found.calls,
                          response |-> found.response]
  /\ op' = "get_memory"
  /\ arg' = [session_id |-> session_id, query |-> query]
  /\ UNCHANGED <<sessions, store>>

---------------------------------------------------------------------------
(* The service: sessions are created, messages sent, sessions committed to *)
(* memory on demand and memories searched, in any order.                   *)

Messages == {<<>>, TextA, TextHi}

Queries == {<<>>, TextHi}

Init == InitMemory

SendMessage ==
  \E session_id \in SessionIds, message \in Messages :
    /\ session_id \in DOMAIN sessions => TotalEvents < 2 * MaxMessages
    /\ send_message(session_id, message)

GetMemory ==
  \E session_id \in SessionIds, query \in Queries :
    get_memory(session_id, query)

CommitSession == \E session_id \in SessionIds : AddSessionToMemory(session_id)

Next == CreateSession \/ SendMessage \/ GetMemory \/ CommitSession

Spec == Init /\ [][Next]_vars

\* C2: POST /sessions/{id}/message on an existing session answers 500
\* exactly when the stored history has no turn with non-empty text and the
\* submitted message is empty; otherwise it answers 200 with the agent's
\* response text, which is not empty.
C2_ErrorIffNothingToEcho ==
  [][ (op' = "send_message" /\ arg'.session_id \in DOMAIN sessions) =>
        LET before == sessions[arg'.session_id]
            silent == Qualifying(before) = {} /\ arg'.message = <<>>
            content == Some(Content(Some("user"),
                                    <<PartFromText(arg'.message)>>))
        IN /\ result'.status = 500 <=> silent
           /\ result'.status # 500 =>
                /\ result'.status = 200
                /\ result'.body.response # <<>>
                /\ result'.body.response =
                     Expected(Combined(arg'.session_id, content)) ]_vars

\* an empty message to a session whose four stored turns have no text
C2_Witness ==
  /\ op = "send_message"
  /\ result.status = 500
  /\ arg.session_id \in DOMAIN sessions
  /\ Len(sessions[arg.session_id].events) = 4

\* C4: a session that was created and has been sent no message gets an
\* empty memories list from GET /sessions/{id}/memory, whatever the query
\* and whatever happened to other sessions before.
C4_FreshSessionHasNoMemories ==
  (/\ op = "get_memory"
   /\ arg.session_id \in DOMAIN sessions
   /\ sessions[arg.session_id].events = <<>>)
    => (result.status = 200 /\ result.body.memories = <<>>)

\* C5: whenever a message submission or a memory search ends in an error
\* response (500 or 404), the session histories and the memory store are the
\* same as before the request.
C5_ErrorsChangeNothing ==
  [][ (op' \in {"send_message", "get_memory"} /\ result'.status \in {404, 500})
        => (sessions' = sessions /\ store' = store) ]_vars

\* C7: GET /sessions/{id}/memory answers 404 for an id the registry does
\* not know, without querying the store; for a known session it answers with
\* one {author, text, timestamp} entry per result of the search, in order.
C7_MemoryAnswer ==
  op = "get_memory" =>
    IF arg.session_id \notin DOMAIN sessions
    THEN result.status = 404 /\ result.calls = <<>>
    ELSE /\ result.status = 200
         /\ Len(result.calls) = 1
         /\ result.calls[1].method = "query"
         /\ result.calls[1].query_embeddings = <<_embed_text(arg.query)>>
         /\ LET found == result.response.memories
                given == result.body.memories
            IN /\ Len(given) = Len(found)
               /\ \A j \in 1..Len(found) :
                    /\ given[j].author = found[j].author
                    /\ given[j].timestamp = found[j].timestamp
                    /\ Some(Content(Some("user"),
                                    <<PartFromText(given[j].text)>>))
                         = found[j].content

\* a search that answers with two memories of different authors
C7_Witness ==
  /\ op = "get_memory"
  /\ result.status = 200
  /\ Len(result.body.memories) >= 2
  /\ result.body.memories[1].author # result.body.memories[2].author
  /\ result.body.memories[1].text # <<>>

=============================================================================
